---- MODULE Spec2Model ----
(***************************************************************************)
(* Model of src/solver.py: the 16x16 Sudoku solver (backtracking with the  *)
(* Minimum Remaining Values heuristic).  The recursion of solve_sudoku is  *)
(* unfolded into an explicit stack of call frames; get_valid_candidates    *)
(* and find_mrv_cell are pure functions of the board and are operators.    *)
(***************************************************************************)
EXTENDS Integers, Sequences, FiniteSets, TLC

VARIABLES board, recursive_calls, stack, pc, retval, board0, run, first

vars == <<board, recursive_calls, stack, pc, retval, board0, run, first>>

(***************************************************************************)
(* Constants of the program.                                               *)
(***************************************************************************)
GRID_SIZE == 16

SUBGRID_SIZE == 4

EMPTY_CELL == "_"

SYMBOLS ==
    {"0", "1", "2", "3", "4", "5", "6", "7",
     "8", "9", "A", "B", "C", "D", "E", "F"}

\* The order sorted() puts one-character strings in: by code point, the
\* digits before the upper-case letters.
SymbolOrder ==
    <<"0", "1", "2", "3", "4", "5", "6", "7",
      "8", "9", "A", "B", "C", "D", "E", "F">>

Indices == 0 .. (GRID_SIZE - 1)

\* Python's None, and the tuple (row, col, candidates) find_mrv_cell returns.
None == <<>>

\* float("inf"): larger than the size of any candidate set.
Infinity == GRID_SIZE + 1

(***************************************************************************)
(* Bounds of the model: the input boards.  An input is a complete valid    *)
(* grid (Base) with any subset of the first PoolSize cells of Pool made    *)
(* empty, after which up to MaxPlaced of the emptied cells are filled      *)
(* again with any symbol their row, column and subgrid still allow.  Every *)
(* input is therefore consistent; some have no completion.                 *)
(***************************************************************************)
PoolSize == 9

MaxPlaced == 1

Pool ==
    << <<8, 3>>, <<8, 11>>, <<8, 15>>, <<9, 3>>, <<9, 11>>,
       <<11, 3>>, <<11, 11>>, <<11, 15>>, <<8, 1>>, <<2, 3>>,
       <<2, 11>>, <<0, 0>> >>

Min(a, b) == IF a < b THEN a ELSE b

PoolCells == {Pool[i] : i \in 1 .. Min(PoolSize, Len(Pool))}

Base ==
    [r \in Indices |-> [c \in Indices |->
        SymbolOrder[(((r % SUBGRID_SIZE) * SUBGRID_SIZE
                      + (r \div SUBGRID_SIZE) + c) % GRID_SIZE) + 1]]]

(***************************************************************************)
(* Board model: read of a cell is b[row][col]; the only write sets or      *)
(* clears one cell (board[row][col] = value).                              *)
(***************************************************************************)
SetCellSwapped(b, row, col, value) ==
    [b EXCEPT ![col][row] = value]

SetCell(b, row, col, value) ==
    [b EXCEPT ![row][col] = value]

(***************************************************************************)
(* get_valid_candidates: the symbols used by the row, the column and the   *)
(* subgrid are collected (the sentinel among them) and subtracted from     *)
(* SYMBOLS.                                                                *)
(***************************************************************************)
get_valid_candidates_no_column(b, row, col) ==
    LET start_row == (row \div SUBGRID_SIZE) * SUBGRID_SIZE
        start_col == (col \div SUBGRID_SIZE) * SUBGRID_SIZE
        used_symbols ==
            {b[row][c] : c \in Indices}
            \cup {b[r][c] : r \in start_row .. (start_row + SUBGRID_SIZE - 1),
                            c \in start_col .. (start_col + SUBGRID_SIZE - 1)}
    IN  SYMBOLS \ used_symbols

get_valid_candidates(b, row, col) ==
    LET start_row == (row \div SUBGRID_SIZE) * SUBGRID_SIZE
        start_col == (col \div SUBGRID_SIZE) * SUBGRID_SIZE
        used_symbols ==
            {b[row][c] : c \in Indices}
            \cup {b[r][col] : r \in Indices}
            \cup {b[r][c] : r \in start_row .. (start_row + SUBGRID_SIZE - 1),
                            c \in start_col .. (start_col + SUBGRID_SIZE - 1)}
    IN  SYMBOLS \ used_symbols

(***************************************************************************)
(* find_mrv_cell: the two nested loops visit the cells in row-major order  *)
(* and act on the empty ones only, so the scan runs over the empty cells   *)
(* in that order; best is best_cell, smallest is smallest_domain_size.     *)
(***************************************************************************)
SmallerOrEqual(n, smallest) == n <= smallest

Smaller(n, smallest) == n < smallest

\* The cells in the order the loops visit them (row outer, column inner),
\* and those of them that pass the test board[row][col] == EMPTY_CELL.
RowMajor == [k \in 1 .. (GRID_SIZE * GRID_SIZE) |->
                <<(k - 1) \div GRID_SIZE, (k - 1) % GRID_SIZE>>]

EmptyCellsInOrder(b) ==
    SelectSeq(RowMajor, LAMBDA p : b[p[1]][p[2]] = EMPTY_CELL)

RECURSIVE MrvScan(_, _, _, _, _)
MrvScan(b, cells, k, best, smallest) ==
    IF k > Len(cells)
    THEN best
    ELSE LET row == cells[k][1]
             col == cells[k][2]
             candidates == get_valid_candidates(b, row, col)
             n == Cardinality(candidates)
         IN  IF candidates = {}
             THEN None
             ELSE IF Smaller(n, smallest)
                  THEN IF n = 1
                       THEN <<row, col, candidates>>
                       ELSE MrvScan(b, cells, k + 1,
                                    <<row, col, candidates>>, n)
                  ELSE MrvScan(b, cells, k + 1, best, smallest)

\* The list of empty cells is bound once, as a value, for the whole scan.
find_mrv_cell(b) ==
    CHOOSE result \in {MrvScan(b, cells, 1, None, Infinity) :
                          cells \in {EmptyCellsInOrder(b)}} : TRUE

\* sorted(candidates), with the order reversed on the second run.
SortedByRun(candidates) ==
    LET asc == SelectSeq(SymbolOrder, LAMBDA s : s \in candidates)
    IN  IF run = 1 THEN asc
        ELSE [i \in 1 .. Len(asc) |-> asc[Len(asc) + 1 - i]]

\* sorted(candidates): ascending.
Sorted(candidates) ==
    SelectSeq(SymbolOrder, LAMBDA s : s \in candidates)

(***************************************************************************)
(* The input boards.                                                       *)
(***************************************************************************)
Blanked(E) ==
    [r \in Indices |-> [c \in Indices |->
        IF <<r, c>> \in E THEN EMPTY_CELL ELSE Base[r][c]]]

\* The symbols a cell's row, column and subgrid leave free.
Free(b, row, col) ==
    LET br == row - (row % SUBGRID_SIZE)
        bc == col - (col % SUBGRID_SIZE)
    IN  {s \in SYMBOLS :
            /\ \A c \in Indices : b[row][c] # s
            /\ \A r \in Indices : b[r][col] # s
            /\ \A r \in br .. (br + SUBGRID_SIZE - 1),
                  c \in bc .. (bc + SUBGRID_SIZE - 1) : b[r][c] # s}

\* The ways to fill up to n empty pool cells of b, one after the other, each
\* with a symbol free for it: sequences of <<row, col, symbol>>.
RECURSIVE Placements(_, _)
Placements(b, n) ==
    IF n = 0
    THEN {<<>>}
    ELSE {<<>>} \cup UNION {
             {<<x>> \o rest :
                 rest \in Placements([b EXCEPT ![x[1]][x[2]] = x[3]], n - 1)} :
             x \in UNION {{<<q[1], q[2], s>> : s \in Free(b, q[1], q[2])} :
                            q \in {c \in PoolCells :
                                     b[c[1]][c[2]] = EMPTY_CELL}}}

RECURSIVE Fill(_, _)
Fill(b, placements) ==
    IF placements = <<>>
    THEN b
    ELSE Fill([b EXCEPT ![Head(placements)[1]][Head(placements)[2]]
                            = Head(placements)[3]],
              Tail(placements))

(***************************************************************************)
(* State machine of solve_sudoku.  pc is the position of the running       *)
(* invocation: "call" at its entry, "loop" at the head of its for loop,    *)
(* "ret" when an invocation has just returned retval, "done" when the      *)
(* top-level call has returned.  stack holds one frame (row, col, the      *)
(* sorted candidates, the index of the next one) per invocation that has   *)
(* selected a cell.                                                        *)
(***************************************************************************)
Init ==
    /\ \E E \in SUBSET PoolCells :
          \E placements \in Placements(Blanked(E), MaxPlaced) :
              board = Fill(Blanked(E), placements)
    /\ board0 = board
    /\ recursive_calls = 0
    /\ stack = <<>>
    /\ pc = "call"
    /\ retval = FALSE
    /\ run = 1
    /\ first = [result |-> FALSE, board |-> board, calls |-> 0]

Top == stack[Len(stack)]

Pop == SubSeq(stack, 1, Len(stack) - 1)

\* Lines 127-136: count the invocation, select the cell; None returns True.
Enter ==
    /\ pc = "call"
    /\ recursive_calls' = recursive_calls + 1
    /\ \E mrv_result \in {find_mrv_cell(board)} :
           IF mrv_result = None
           THEN /\ retval' = TRUE
                /\ pc' = "ret"
                /\ stack' = stack
           ELSE /\ stack' = Append(stack,
                                [row |-> mrv_result[1],
                                 col |-> mrv_result[2],
                                 candidates |-> Sorted(mrv_result[3]),
                                 i |-> 1])
                /\ pc' = "loop"
                /\ retval' = retval
    /\ UNCHANGED <<board, board0, run, first>>

\* Lines 139-142 and 148: the next candidate is assigned and the recursive
\* call made; with the candidates exhausted the invocation returns False.
Branch ==
    /\ pc = "loop"
    /\ IF Top.i <= Len(Top.candidates)
       THEN /\ board' = SetCell(board, Top.row, Top.col, Top.candidates[Top.i])
            /\ pc' = "call"
            /\ UNCHANGED <<stack, retval>>
       ELSE /\ stack' = Pop
            /\ retval' = FALSE
            /\ pc' = "ret"
            /\ board' = board
    /\ UNCHANGED <<recursive_calls, board0, run, first>>

\* Lines 142-146: the recursive call has returned to its caller; True is
\* passed on, False is followed by the backtrack and the next candidate.
Return ==
    /\ pc = "ret"
    /\ stack # <<>>
    /\ IF retval
       THEN /\ stack' = Pop
            /\ pc' = "ret"
            /\ board' = board
       ELSE /\ board' = SetCell(board, Top.row, Top.col, EMPTY_CELL)
            /\ stack' = [stack EXCEPT ![Len(stack)].i = @ + 1]
            /\ pc' = "loop"
    /\ UNCHANGED <<recursive_calls, retval, board0, run, first>>

\* Line 178: the top-level call returns to its caller.
Finish ==
    /\ pc = "ret"
    /\ stack = <<>>
    /\ pc' = "done"
    /\ UNCHANGED <<board, recursive_calls, stack, retval, board0, run, first>>

\* A second run on an equal input board, the counter reset before it.
Rerun ==
    /\ pc = "done"
    /\ run = 1
    /\ first' = [result |-> retval, board |-> board, calls |-> recursive_calls]
    /\ board' = board0
    /\ recursive_calls' = 0
    /\ stack' = <<>>
    /\ pc' = "call"
    /\ run' = 2
    /\ UNCHANGED <<retval, board0>>

Next == Enter \/ Branch \/ Return \/ Finish

Spec == Init /\ [][Next]_vars

FairSpec == Spec /\ WF_vars(Next)

NextTwice == Enter \/ Branch \/ Return \/ Finish \/ Rerun

SpecTwice == Init /\ [][NextTwice]_vars

(***************************************************************************)
(* Vocabulary of the properties.                                           *)
(***************************************************************************)
Cells == Indices \X Indices

RowUnit(r) == {<<r, c>> : c \in Indices}

ColUnit(c) == {<<r, c>> : r \in Indices}

BoxUnit(k) ==
    {p \in Cells : /\ p[1] \div SUBGRID_SIZE = k \div SUBGRID_SIZE
                   /\ p[2] \div SUBGRID_SIZE = k % SUBGRID_SIZE}

Units ==
    {RowUnit(r) : r \in Indices} \cup {ColUnit(c) : c \in Indices}
    \cup {BoxUnit(k) : k \in Indices}

EmptyCells(b) == {p \in Cells : b[p[1]][p[2]] = EMPTY_CELL}

\* No symbol twice among the non-empty cells of a row, column or subgrid.
Consistent(b) ==
    \A U \in Units :
        Cardinality({b[p[1]][p[2]] : p \in U} \ {EMPTY_CELL})
            = Cardinality({p \in U : b[p[1]][p[2]] # EMPTY_CELL})

\* Every cell a symbol, every row, column and subgrid each symbol once.
ValidComplete(b) ==
    /\ \A p \in Cells : b[p[1]][p[2]] \in SYMBOLS
    /\ \A U \in Units : {b[p[1]][p[2]] : p \in U} = SYMBOLS

\* b can be completed: its empty cells filled so that ValidComplete holds.
RECURSIVE HasCompletion(_)
HasCompletion(b) ==
    LET cells == EmptyCellsInOrder(b)
    IN  IF cells = <<>>
        THEN ValidComplete(b)
        ELSE \E s \in Free(b, cells[1][1], cells[1][2]) :
                 HasCompletion([b EXCEPT ![cells[1][1]][cells[1][2]] = s])

\* Some empty cell has no candidate left.
HasDeadCell(b) ==
    \E p \in EmptyCells(b) : Free(b, p[1], p[2]) = {}

\* The number of invocations of solve_sudoku in progress.
ActiveInvocations == Len(stack) + (IF pc = "call" THEN 1 ELSE 0)

EmptyCount(b) == Len(EmptyCellsInOrder(b))

FilledCount(b) == GRID_SIZE * GRID_SIZE - EmptyCount(b)

Range(q) == {q[i] : i \in 1 .. Len(q)}

(***************************************************************************)
(* C1 (validity): from a consistent input, whenever solve_sudoku returns   *)
(* True the board has no empty cell, every cell holds one of the 16        *)
(* symbols, and every row, column and subgrid holds each symbol once.      *)
(***************************************************************************)
C1_Validity ==
    (pc = "done" /\ Consistent(board0) /\ retval) => ValidComplete(board)

(***************************************************************************)
(* C2 (completeness): from a consistent input that has a completion,       *)
(* solve_sudoku returns True and leaves no empty cell.                     *)
(***************************************************************************)
C2_Completeness ==
    (pc = "done" /\ Consistent(board0) /\ HasCompletion(board0))
        => (retval /\ EmptyCells(board) = {})

(***************************************************************************)
(* C3 (non-corruption on failure): from a consistent input without a       *)
(* completion, solve_sudoku returns False and the board equals the input.  *)
(***************************************************************************)
C3_FailureRestores ==
    (pc = "done" /\ Consistent(board0) /\ ~HasCompletion(board0))
        => (~retval /\ board = board0)

(***************************************************************************)
(* C4 (forward checking): an invocation entered on a board with an empty   *)
(* cell that has no candidate returns False at once, no cell assigned.     *)
(***************************************************************************)
C4_ForwardCheck ==
    [][(pc = "call" /\ HasDeadCell(board))
          => (pc' = "ret" /\ ~retval' /\ board' = board)]_vars

(***************************************************************************)
(* C5 (frame): a cell that was non-empty when the top-level call began     *)
(* holds its initial symbol at every point of the search and on return.    *)
(***************************************************************************)
C5_PrefilledKept ==
    \A p \in Cells :
        board0[p[1]][p[2]] # EMPTY_CELL
            => board[p[1]][p[2]] = board0[p[1]][p[2]]

C5_Witness ==
    /\ pc = "done"
    /\ Len(EmptyCellsInOrder(board0)) >= 3
    /\ EmptyCells(board) = {}

SizeAt(p) == Cardinality(get_valid_candidates(board, p[1], p[2]))

Before(p, q) == p[1] < q[1] \/ (p[1] = q[1] /\ p[2] < q[2])

Sel == <<Top.row, Top.col>>

SelIsCurrent ==
    /\ Sel \in EmptyCells(board)
    /\ Range(Top.candidates) = get_valid_candidates(board, Top.row, Top.col)
    /\ Len(Top.candidates) = SizeAt(Sel)

C9_ConsistentSearch ==
    [][/\ Consistent(board)
       /\ Consistent(board')
       /\ \A p \in Cells :
             (board'[p[1]][p[2]] # board[p[1]][p[2]]
                /\ board'[p[1]][p[2]] # EMPTY_CELL)
                 => /\ board[p[1]][p[2]] = EMPTY_CELL
                    /\ board'[p[1]][p[2]] \in Free(board, p[1], p[2])]_vars

C9_Witness ==
    /\ pc = "call"
    /\ Len(stack) >= 3
    /\ EmptyCells(board) # {}

(***************************************************************************)
(* C10 (termination): every call of solve_sudoku returns; an invocation    *)
(* nested d deep in recursive calls is entered with d more filled cells    *)
(* than the input (one more than its caller); every invocation iterates a  *)
(* candidate sequence of at most 16 symbols; and the depth of recursive    *)
(* invocations never exceeds the number of empty cells of the input.       *)
(***************************************************************************)
C10_Termination ==
    /\ <>(pc = "done")
    /\ [](pc = "call" => FilledCount(board) = FilledCount(board0) + Len(stack))
    /\ [](\A k \in 1 .. Len(stack) :
            /\ Len(stack[k].candidates) <= GRID_SIZE
            /\ stack[k].i <= Len(stack[k].candidates)
            /\ FilledCount(board) >= FilledCount(board0) + k - 1)
    /\ [](ActiveInvocations - 1 <= EmptyCount(board0))

C10_Witness ==
    /\ pc = "done"
    /\ recursive_calls = EmptyCount(board0) + 1
    /\ recursive_calls >= 4

====
